---- MODULE Spec2Model ----
(***************************************************************************)
(* solr2es: replication of a cursor-paginated Solr source into an          *)
(* Elasticsearch destination.  The module models the four migrate          *)
(* implementations of the repository (blocking and cooperative, in         *)
(* solr2es/solr2es.py and in solr2es/__init__.py), the transform           *)
(* create_es_actions / remove_arrays / dumps, and the two collaborators    *)
(* (source and destination) as scripted responders.                        *)
(*                                                                         *)
(* A run is one call of migrate.  Spec makes one run of any of the four     *)
(* implementations; SpecPair makes two runs of solr2es.py one after the    *)
(* other, the blocking one and then the cooperative one, against the same  *)
(* collaborator responses.                                                 *)
(***************************************************************************)
EXTENDS Integers, Sequences, FiniteSets, TLC

(* ------------------------------ bounds -------------------------------- *)
MaxRequests == 3
MaxPageLen == 2

(* ------------------------- program constants -------------------------- *)
DEFAULT_ES_DOC_TYPE == "doc"
ProgressThreshold == 10000

(* ------------------------------ JSON ---------------------------------- *)
\* A JSON value: a string, a list of values, or a dict (ordered key/value pairs).
Str(x) == [kind |-> "str", s |-> x, items |-> <<>>]
List(xs) == [kind |-> "list", s |-> "", items |-> xs]
Dict(pairs) == [kind |-> "dict", s |-> "", items |-> pairs]
Pair(key, value) == [k |-> key, v |-> value]

Quote(x) == "\"" \o x \o "\""

RECURSIVE JoinTokens(_, _)
JoinTokens(parts, sep) ==
    IF parts = <<>> THEN <<>>
    ELSE IF Len(parts) = 1 THEN Head(parts)
    ELSE Head(parts) \o <<sep>> \o JoinTokens(Tail(parts), sep)

\* json.dumps: the JSON text of a value, as its sequence of tokens.
RECURSIVE dumps(_)
dumps(d) ==
    IF d.kind = "str" THEN <<Quote(d.s)>>
    ELSE IF d.kind = "list"
    THEN <<"[">> \o JoinTokens([i \in 1..Len(d.items) |-> dumps(d.items[i])], ",") \o <<"]">>
    ELSE <<"{">>
         \o JoinTokens([i \in 1..Len(d.items) |->
                          <<Quote(d.items[i].k), ":">> \o dumps(d.items[i].v)], ",")
         \o <<"}">>

\* row[key] on a dict.
Get(row, key) ==
    LET i == CHOOSE j \in 1..Len(row.items) : row.items[j].k = key
    IN  row.items[i].v

(* ---------------------------- transform ------------------------------- *)
\* value[0] on an empty list raises IndexError.
filterRaises(value) == value.kind = "list" /\ value.items = <<>>

\* value[-1]: the last element kept.
filter_last(value) == IF value.kind = "list" THEN value.items[Len(value.items)] ELSE value

\* A list of one element kept as a list.
filter_keeping_singletons(value) ==
    IF value.kind = "list" /\ Len(value.items) # 1 THEN value.items[1] ELSE value

filter(value) == IF value.kind = "list" THEN value.items[1] ELSE value

remove_arraysRaises(row) == \E i \in 1..Len(row.items) : filterRaises(row.items[i].v)

\* The id left out of the body.
remove_arrays_without_id(row) ==
    LET kept == SelectSeq(row.items, LAMBDA p : p.k # "id")
    IN  Dict([i \in 1..Len(kept) |-> Pair(kept[i].k, filter(kept[i].v))])

remove_arrays(row) ==
    Dict([i \in 1..Len(row.items) |-> Pair(row.items[i].k, filter(row.items[i].v))])

\* The directive dict of one row.
Directive(index_name, row) ==
    Dict(<<Pair("index", Dict(<<Pair("_index", Str(index_name)),
                               Pair("_type", Str(DEFAULT_ES_DOC_TYPE)),
                               Pair("_id", Get(row, "id"))>>))>>)

RECURSIVE Chain(_)
Chain(tuples) ==
    IF tuples = <<>> THEN <<>> ELSE Head(tuples) \o Chain(Tail(tuples))

create_es_actionsRaises(solr_results) ==
    \E i \in 1..Len(solr_results) : remove_arraysRaises(solr_results[i])

\* Every directive built from the first row.
create_es_actions_first_row(index_name, solr_results) ==
    LET results_ == [i \in 1..Len(solr_results) |->
                       <<Directive(index_name, solr_results[1]),
                         remove_arrays(solr_results[i])>>]
        chained == Chain(results_)
    IN  JoinTokens([i \in 1..Len(chained) |-> dumps(chained[i])], "\n")

\* The NDJSON text: the dumped directive and body of every row, joined by "\n".
create_es_actions(index_name, solr_results) ==
    LET results_ == [i \in 1..Len(solr_results) |->
                       <<Directive(index_name, solr_results[i]),
                         remove_arrays(solr_results[i])>>]
        chained == Chain(results_)
    IN  JoinTokens([i \in 1..Len(chained) |-> dumps(chained[i])], "\n")

(* ----------------------------- inputs --------------------------------- *)
Doc7 == Dict(<<Pair("id", Str("7")), Pair("tags", List(<<Str("a"), Str("b")>>))>>)
Doc8 == Dict(<<Pair("id", Str("8")), Pair("tags", Str("a"))>>)
Doc9 == Dict(<<Pair("id", Str("9")), Pair("tags", List(<<>>))>>)

\* The source's documents, in id order.
Corpus == <<Doc7, Doc8, Doc9>>

\* Pages: runs of consecutive documents of the corpus, at most MaxPageLen long.
Pages ==
    {<<>>} \cup
    {SubSeq(Corpus, ij[1], ij[2]) :
        ij \in {p \in (1..Len(Corpus)) \X (1..Len(Corpus)) :
                   p[2] >= p[1] /\ p[2] - p[1] < MaxPageLen}}

\* The arguments of migrate: (index_name, mapping).
MigrateArgs == {<<"idx", "None">>, <<"solr2es", "mapping">>}
\* The totals the source may report.
Hits == {0, 25}

\* The classes of solr2es.py, and those of __init__.py (pkg).
Impls == {"Solr2Es", "Solr2EsAsync", "pkg.Solr2Es", "pkg.Solr2EsAsync"}
Runs == {1, 2}

(* ------------------------------ state --------------------------------- *)
VARIABLES
    run,          \* run[r]: the state of the r-th migrate call
    index_name,   \* migrate's argument
    mapping,      \* migrate's argument
    solrScript,   \* the source's responses, by request number
    bulkScript,   \* the destination's bulk responses, by call number
    existsResp,   \* the destination's answer to indices.exists
    createFails,  \* whether indices.create raises
    numFound,     \* the source's total hit count
    queue,        \* the redis list 'solr2es:queue', head first
    t_rows,       \* create_es_actions called on its own: its solr_results
    t_actions,    \* ... and what it returned, once called
    t_bodies      \* ... and what remove_arrays returned for each row, once called,
                  \*     and for each of the rows it returned, once called again

vars == <<run, index_name, mapping, solrScript, bulkScript, existsResp, createFails, numFound,
          queue, t_rows, t_actions, t_bodies>>

\* The transform is not called on its own.
NotCalled == [called |-> FALSE, raised |-> FALSE, value |-> <<>>]
NotCollapsed == [called |-> FALSE, raised |-> FALSE, value |-> <<>>,
                 twice |-> FALSE, again |-> <<>>]

InitRun(impl) ==
    [impl |-> impl, pc |-> "migrate", error |-> "none",
     cursorMark |-> "*", cursor_ended |-> FALSE,
     pr_nb_results |-> 0, nb_total |-> 0,
     results |-> <<>>, nextCursorMark |-> "*",
     nb_results |-> 0, ret |-> <<>>,
     calls |-> <<>>, log |-> <<>>, nSearch |-> 0, nBulk |-> 0]

\* A run that is never made.
NoRun == [InitRun("none") EXCEPT !.pc = "idle"]

\* The arguments and the collaborators.  The total, the index and its creation are
\* drawn where a run consults them: only produce_results reads the total, only
\* Solr2Es.migrate of solr2es.py asks for the index, and only an absent index is
\* created.
InitWorld ==
    /\ \E a \in MigrateArgs : index_name = a[1] /\ mapping = a[2]
    /\ solrScript = <<>>
    /\ bulkScript = <<>>
    /\ numFound \in (IF run[1].impl \in {"Solr2Es", "Solr2EsAsync"} THEN Hits ELSE {0})
    /\ existsResp \in (IF run[1].impl = "Solr2Es" THEN BOOLEAN ELSE {FALSE})
    /\ createFails \in (IF run[1].impl = "Solr2Es" /\ ~existsResp THEN BOOLEAN ELSE {FALSE})
    /\ queue = <<>>
    /\ t_rows = <<>>
    /\ t_actions = NotCalled
    /\ t_bodies = NotCollapsed

\* One run, of any implementation.
Init ==
    /\ \E impl \in Impls : run = [r \in Runs |-> IF r = 1 THEN InitRun(impl) ELSE NoRun]
    /\ InitWorld

\* The blocking and then the cooperative implementation of solr2es.py.
InitPair ==
    /\ run = [r \in Runs |-> IF r = 1 THEN InitRun("Solr2Es") ELSE InitRun("Solr2EsAsync")]
    /\ InitWorld

Finished(s) == s.pc \in {"done", "failed"}

\* The second run, when there is one, starts when the first has ended.
Scheduled(r) == run[r].pc # "idle" /\ (r = 1 \/ Finished(run[1]))

\* The exception caught and the tally so far returned.
Raise_swallowed(s, err) ==
    [s EXCEPT !.pc = "done", !.error = err, !.ret = <<s.nb_results>>]

\* An exception leaving migrate: the run ends without a return value.
Raise(s, err) == [s EXCEPT !.pc = "failed", !.error = err]

(* --------------------------- collaborators ---------------------------- *)
Call(op, name, body, opts) == [op |-> op, name |-> name, body |-> body, opts |-> opts]

\* The query: solr.search('*:*', cursorMark, sort) in the blocking classes, the same
\* q, cursorMark and sort as parameters of a GET of /select/ in the cooperative ones.
SearchCall(cursorMark) == Call("search", "*:*", <<cursorMark>>, <<"id asc">>)
ExistsCall == Call("exists", index_name, <<>>, <<>>)
CreateCall == Call("create", index_name, <<mapping>>, <<>>)
BulkCall(actions) == Call("bulk", index_name, actions, <<DEFAULT_ES_DOC_TYPE, "refresh=False">>)

FreshCursor(k) == "c" \o ToString(k)

\* The total the source reports in its k-th response: documents are added to the
\* source while it is read.
Total(k) == numFound + (k - 1)

SolrFailure == [raise |-> TRUE, docs |-> <<>>, nextCursorMark |-> "", hits |-> 0]

\* What the source may answer to request number k carrying cursor c: a failure,
\* or a page with either the cursor it was sent or a new one.
SourceAnswers(c, k) ==
    {SolrFailure} \cup
    {[raise |-> FALSE, docs |-> d, nextCursorMark |-> n, hits |-> Total(k)] :
        d \in Pages, n \in {c, FreshCursor(k)}}

\* Both runs are given the same answers: request number k is answered as scripted.
SolrTake(c, k) ==
    IF k <= Len(solrScript) THEN {solrScript[k]} ELSE SourceAnswers(c, k)

SolrScripted(k, resp) ==
    solrScript' = IF k <= Len(solrScript) THEN solrScript ELSE Append(solrScript, resp)

DocId(row) == Get(row, "id").s

BulkFailure == [raise |-> TRUE, errors |-> FALSE, items |-> <<>>]

\* What the destination may answer to a bulk of these rows: a failure of the call,
\* or one item result per row, any of them failed.
DestinationAnswers(rows) ==
    {BulkFailure} \cup
    {[raise |-> FALSE, errors |-> F # {},
      items |-> [i \in 1..Len(rows) |-> [id |-> DocId(rows[i]), failed |-> i \in F]]] :
        F \in SUBSET (1..Len(rows))}

BulkTake(rows, k) ==
    IF k <= Len(bulkScript) THEN {bulkScript[k]} ELSE DestinationAnswers(rows)

BulkScripted(k, resp) ==
    bulkScript' = IF k <= Len(bulkScript) THEN bulkScript ELSE Append(bulkScript, resp)

Searched(s) == [s EXCEPT !.calls = Append(@, SearchCall(s.cursorMark)), !.nSearch = @ + 1]
Bulked(s, actions) == [s EXCEPT !.calls = Append(@, BulkCall(actions)), !.nBulk = @ + 1]

LogEntry(msg, nums, strs) == [msg |-> msg, nums |-> nums, strs |-> strs]

(* ---------------------- solr2es.py: class Solr2Es --------------------- *)
\* migrate, lines 31-33: the index is created when the destination reports it absent.
Solr2Es_ensure_index(s) ==
    LET s1 == [s EXCEPT !.nb_results = 0, !.calls = Append(@, ExistsCall)]
    IN  IF existsResp THEN [s1 EXCEPT !.pc = "search"]
        ELSE LET s2 == [s1 EXCEPT !.calls = Append(@, CreateCall)]
             IN  IF createFails THEN Raise(s2, "TargetProvisioningFailure")
                 ELSE [s2 EXCEPT !.pc = "search"]

\* An empty page not yielded.
Solr2Es_produce_results_skipping_empty(s, results) ==
    LET first == s.cursorMark = "*"
        s1 == IF first
              THEN [s EXCEPT !.nb_total = results.hits,
                             !.log = Append(@, LogEntry("found", <<results.hits>>, <<>>))]
              ELSE s
    IN  IF s1.cursorMark # results.nextCursorMark
        THEN LET s2 == [s1 EXCEPT !.cursorMark = results.nextCursorMark,
                                  !.pr_nb_results = @ + Len(results.docs)]
             IN  IF results.docs = <<>> THEN s2
                 ELSE [s2 EXCEPT !.results = results.docs, !.pc = "bulk"]
        ELSE [s1 EXCEPT !.cursor_ended = TRUE]

\* The total read from every response.
Solr2Es_produce_results_total_every(s, results) ==
    LET s1 == [s EXCEPT !.nb_total = results.hits,
                        !.log = Append(@, LogEntry("found", <<results.hits>>, <<>>))]
    IN  IF s1.cursorMark # results.nextCursorMark
        THEN LET s2 == [s1 EXCEPT !.cursorMark = results.nextCursorMark,
                                  !.pr_nb_results = @ + Len(results.docs)]
             IN  IF s2.pr_nb_results % ProgressThreshold = 0
                 THEN IF s2.nb_total = 0
                      THEN Raise(s2, "ZeroDivisionError")
                      ELSE [s2 EXCEPT !.log = Append(@, LogEntry("read",
                                          <<s2.pr_nb_results, s2.nb_total,
                                            100 * s2.pr_nb_results, s2.nb_total>>, <<>>)),
                                      !.results = results.docs, !.pc = "bulk"]
                 ELSE [s2 EXCEPT !.results = results.docs, !.pc = "bulk"]
        ELSE [s1 EXCEPT !.cursor_ended = TRUE]

\* A stagnation guard: an empty page ends the loop.
Solr2Es_produce_results_stopping_on_empty(s, results) ==
    LET first == s.cursorMark = "*"
        s1 == IF first
              THEN [s EXCEPT !.nb_total = results.hits,
                             !.log = Append(@, LogEntry("found", <<results.hits>>, <<>>))]
              ELSE s
    IN  IF s1.cursorMark # results.nextCursorMark /\ results.docs # <<>>
        THEN LET s2 == [s1 EXCEPT !.cursorMark = results.nextCursorMark,
                                  !.pr_nb_results = @ + Len(results.docs)]
             IN  [s2 EXCEPT !.results = results.docs, !.pc = "bulk"]
        ELSE [s1 EXCEPT !.cursor_ended = TRUE]

\* produce_results, lines 52-62: what one iteration does with the response.
Solr2Es_produce_results(s, results) ==
    LET first == s.cursorMark = "*"
        s1 == IF first
              THEN [s EXCEPT !.nb_total = results.hits,
                             !.log = Append(@, LogEntry("found", <<results.hits>>, <<>>))]
              ELSE s
    IN  IF s1.cursorMark # results.nextCursorMark
        THEN LET s2 == [s1 EXCEPT !.cursorMark = results.nextCursorMark,
                                  !.pr_nb_results = @ + Len(results.docs)]
             IN  IF s2.pr_nb_results % ProgressThreshold = 0
                 THEN IF s2.nb_total = 0
                      THEN Raise(s2, "ZeroDivisionError")
                      ELSE [s2 EXCEPT !.log = Append(@, LogEntry("read",
                                          <<s2.pr_nb_results, s2.nb_total,
                                            100 * s2.pr_nb_results, s2.nb_total>>, <<>>)),
                                      !.results = results.docs, !.pc = "bulk"]
                 ELSE [s2 EXCEPT !.results = results.docs, !.pc = "bulk"]
        ELSE [s1 EXCEPT !.cursor_ended = TRUE]

\* migrate, lines 42-43.
Solr2Es_return(s) ==
    [s EXCEPT !.log = Append(@, LogEntry("processed", <<s.nb_results>>, <<>>)),
              !.ret = <<s.nb_results>>, !.pc = "done"]

\* The tally assigned, not accumulated.
Solr2Es_tally_assigned(s, response) ==
    LET s1 == [s EXCEPT !.nb_results = Len(s.results), !.pc = "search"]
    IN  IF response.errors
        THEN [s1 EXCEPT !.log = @ \o [i \in 1..Len(response.items) |->
                                        LogEntry("warning", <<>>, <<response.items[i].id>>)],
                        !.nb_results = @ - Len(response.items)]
        ELSE s1

\* Item errors raised, as elasticsearch.helpers.bulk does.
Solr2Es_tally_raising(s, response) ==
    IF response.errors THEN Raise(s, "BulkIndexError")
    ELSE [s EXCEPT !.nb_results = @ + Len(s.results), !.pc = "search"]

\* migrate, lines 37-41: the tally after one bulk response, and back to the loop.
Solr2Es_tally(s, response) ==
    LET s1 == [s EXCEPT !.nb_results = @ + Len(s.results), !.pc = "search"]
    IN  IF response.errors
        THEN [s1 EXCEPT !.log = @ \o [i \in 1..Len(response.items) |->
                                        LogEntry("warning", <<>>, <<response.items[i].id>>)],
                        !.nb_results = @ - Len(response.items)]
        ELSE s1

Solr2Es_migrate(r) ==
    /\ Scheduled(r)
    /\ run[r].impl = "Solr2Es"
    /\ run[r].pc = "migrate"
    /\ run' = [run EXCEPT ![r] = Solr2Es_ensure_index(run[r])]
    /\ UNCHANGED <<index_name, mapping, solrScript, bulkScript, existsResp, createFails, numFound, queue, t_rows, t_actions, t_bodies>>

\* One iteration of produce_results, up to the yield or the end of the generator.
Solr2Es_next(r) ==
    /\ Scheduled(r)
    /\ run[r].impl = "Solr2Es"
    /\ run[r].pc = "search"
    /\ run[r].nSearch < MaxRequests
    /\ \E results \in SolrTake(run[r].cursorMark, run[r].nSearch + 1) :
          /\ SolrScripted(run[r].nSearch + 1, results)
          /\ run' = [run EXCEPT ![r] =
                LET s == Searched(run[r])
                IN  IF results.raise THEN Raise(s, "SourceUnavailable")
                    ELSE LET s1 == Solr2Es_produce_results(s, results)
                         IN  IF s1.cursor_ended THEN Solr2Es_return(s1) ELSE s1]
    /\ UNCHANGED <<index_name, mapping, bulkScript, existsResp, createFails, numFound, queue, t_rows, t_actions, t_bodies>>

\* The body of migrate's loop for one yielded page, lines 35-41.
Solr2Es_body(r) ==
    /\ Scheduled(r)
    /\ run[r].impl = "Solr2Es"
    /\ run[r].pc = "bulk"
    /\ IF create_es_actionsRaises(run[r].results)
       THEN /\ run' = [run EXCEPT ![r] = Raise(run[r], "IndexError")]
            /\ UNCHANGED bulkScript
       ELSE \E response \in BulkTake(run[r].results, run[r].nBulk + 1) :
              /\ BulkScripted(run[r].nBulk + 1, response)
              /\ run' = [run EXCEPT ![r] =
                    LET s == Bulked(run[r], create_es_actions(index_name, run[r].results))
                    IN  IF response.raise THEN Raise(s, "BulkTransportFailure")
                        ELSE Solr2Es_tally(s, response)]
    /\ UNCHANGED <<index_name, mapping, solrScript, existsResp, createFails, numFound, queue, t_rows, t_actions, t_bodies>>

(* -------------------- solr2es.py: class Solr2EsAsync ------------------ *)
\* migrate, line 74.
Solr2EsAsync_enter(s) == [s EXCEPT !.nb_results = 0, !.pc = "search"]

\* produce_results, lines 88-100: what one iteration does with the response.
Solr2EsAsync_produce_results(s, json) ==
    LET first == s.cursorMark = "*"
        s1 == IF first
              THEN [s EXCEPT !.nb_total = json.hits,
                             !.log = Append(@, LogEntry("found", <<json.hits>>, <<>>))]
              ELSE s
    IN  IF s1.cursorMark # json.nextCursorMark
        THEN LET s2 == [s1 EXCEPT !.cursorMark = json.nextCursorMark,
                                  !.pr_nb_results = @ + Len(json.docs)]
             IN  IF s2.pr_nb_results % ProgressThreshold = 0
                 THEN IF s2.nb_total = 0
                      THEN Raise(s2, "ZeroDivisionError")
                      ELSE [s2 EXCEPT !.log = Append(@, LogEntry("read",
                                          <<s2.pr_nb_results, s2.nb_total,
                                            100 * s2.pr_nb_results, s2.nb_total>>, <<>>)),
                                      !.results = json.docs, !.pc = "bulk"]
                 ELSE [s2 EXCEPT !.results = json.docs, !.pc = "bulk"]
        ELSE [s1 EXCEPT !.cursor_ended = TRUE]

\* produce_results, line 101, then migrate, line 79.
Solr2EsAsync_return(s) ==
    [s EXCEPT !.log = Append(@, LogEntry("processed", <<s.pr_nb_results>>, <<>>)),
              !.ret = <<s.nb_results>>, !.pc = "done"]

\* migrate, line 78: the bulk response is not read.
Solr2EsAsync_tally(s, response) ==
    [s EXCEPT !.nb_results = @ + Len(s.results), !.pc = "search"]

Solr2EsAsync_migrate(r) ==
    /\ Scheduled(r)
    /\ run[r].impl = "Solr2EsAsync"
    /\ run[r].pc = "migrate"
    /\ run' = [run EXCEPT ![r] = Solr2EsAsync_enter(run[r])]
    /\ UNCHANGED <<index_name, mapping, solrScript, bulkScript, existsResp, createFails, numFound, queue, t_rows, t_actions, t_bodies>>

Solr2EsAsync_next(r) ==
    /\ Scheduled(r)
    /\ run[r].impl = "Solr2EsAsync"
    /\ run[r].pc = "search"
    /\ run[r].nSearch < MaxRequests
    /\ \E json \in SolrTake(run[r].cursorMark, run[r].nSearch + 1) :
          /\ SolrScripted(run[r].nSearch + 1, json)
          /\ run' = [run EXCEPT ![r] =
                LET s == Searched(run[r])
                IN  IF json.raise THEN Raise(s, "SourceUnavailable")
                    ELSE LET s1 == Solr2EsAsync_produce_results(s, json)
                         IN  IF s1.cursor_ended THEN Solr2EsAsync_return(s1) ELSE s1]
    /\ UNCHANGED <<index_name, mapping, bulkScript, existsResp, createFails, numFound, queue, t_rows, t_actions, t_bodies>>

\* The body of migrate's loop for one yielded page, lines 76-78.
Solr2EsAsync_body(r) ==
    /\ Scheduled(r)
    /\ run[r].impl = "Solr2EsAsync"
    /\ run[r].pc = "bulk"
    /\ IF create_es_actionsRaises(run[r].results)
       THEN /\ run' = [run EXCEPT ![r] = Raise(run[r], "IndexError")]
            /\ UNCHANGED bulkScript
       ELSE \E response \in BulkTake(run[r].results, run[r].nBulk + 1) :
              /\ BulkScripted(run[r].nBulk + 1, response)
              /\ run' = [run EXCEPT ![r] =
                    LET s == Bulked(run[r], create_es_actions(index_name, run[r].results))
                    IN  IF response.raise THEN Raise(s, "BulkTransportFailure")
                        ELSE Solr2EsAsync_tally(s, response)]
    /\ UNCHANGED <<index_name, mapping, solrScript, existsResp, createFails, numFound, queue, t_rows, t_actions, t_bodies>>

(* ----------------- __init__.py: Solr2Es and Solr2EsAsync -------------- *)
\* Solr2Es.migrate, lines 15-17.
pkg_Solr2Es_enter(s) == [s EXCEPT !.nb_results = 0, !.pc = "search"]

\* Solr2Es.migrate, lines 20 and 25-27: the comparison of the cursors.
pkg_Solr2Es_compare(s, results) ==
    IF s.cursorMark # results.nextCursorMark
    THEN [s EXCEPT !.results = results.docs,
                   !.nextCursorMark = results.nextCursorMark, !.pc = "bulk"]
    ELSE [s EXCEPT !.cursor_ended = TRUE, !.ret = <<s.nb_results>>, !.pc = "done"]

\* Solr2Es.migrate, lines 23-24.
pkg_Solr2Es_tally(s, errors) ==
    [s EXCEPT !.nb_results = @ + Len(s.results), !.cursorMark = s.nextCursorMark,
              !.pc = "search"]

\* Solr2EsAsync.migrate, lines 39-41.
pkg_Solr2EsAsync_enter(s) == [s EXCEPT !.nb_results = 0, !.pc = "search"]

\* Solr2EsAsync.migrate, lines 45 and 50-52.
pkg_Solr2EsAsync_compare(s, json) ==
    IF s.cursorMark # json.nextCursorMark
    THEN [s EXCEPT !.results = json.docs,
                   !.nextCursorMark = json.nextCursorMark, !.pc = "bulk"]
    ELSE [s EXCEPT !.cursor_ended = TRUE, !.ret = <<s.nb_results>>, !.pc = "done"]

\* Solr2EsAsync.migrate, lines 48-49.
pkg_Solr2EsAsync_tally(s, response) ==
    [s EXCEPT !.nb_results = @ + Len(s.results), !.cursorMark = s.nextCursorMark,
              !.pc = "search"]

pkg_Solr2Es_migrate(r) ==
    /\ Scheduled(r)
    /\ run[r].impl = "pkg.Solr2Es"
    /\ run[r].pc = "migrate"
    /\ run' = [run EXCEPT ![r] = pkg_Solr2Es_enter(run[r])]
    /\ UNCHANGED <<index_name, mapping, solrScript, bulkScript, existsResp, createFails, numFound, queue, t_rows, t_actions, t_bodies>>

\* The loop of migrate up to the bulk call, lines 18-20 and 25-27.
pkg_Solr2Es_search(r) ==
    /\ Scheduled(r)
    /\ run[r].impl = "pkg.Solr2Es"
    /\ run[r].pc = "search"
    /\ run[r].nSearch < MaxRequests
    /\ \E results \in SolrTake(run[r].cursorMark, run[r].nSearch + 1) :
          /\ SolrScripted(run[r].nSearch + 1, results)
          /\ run' = [run EXCEPT ![r] =
                LET s == Searched(run[r])
                IN  IF results.raise THEN Raise(s, "SourceUnavailable")
                    ELSE pkg_Solr2Es_compare(s, results)]
    /\ UNCHANGED <<index_name, mapping, bulkScript, existsResp, createFails, numFound, queue, t_rows, t_actions, t_bodies>>

\* The rest of the iteration, lines 21-24.
pkg_Solr2Es_bulk(r) ==
    /\ Scheduled(r)
    /\ run[r].impl = "pkg.Solr2Es"
    /\ run[r].pc = "bulk"
    /\ IF create_es_actionsRaises(run[r].results)
       THEN /\ run' = [run EXCEPT ![r] = Raise(run[r], "IndexError")]
            /\ UNCHANGED bulkScript
       ELSE \E errors \in BulkTake(run[r].results, run[r].nBulk + 1) :
              /\ BulkScripted(run[r].nBulk + 1, errors)
              /\ run' = [run EXCEPT ![r] =
                    LET s == Bulked(run[r], create_es_actions(index_name, run[r].results))
                    IN  IF errors.raise THEN Raise(s, "BulkTransportFailure")
                        ELSE pkg_Solr2Es_tally(s, errors)]
    /\ UNCHANGED <<index_name, mapping, solrScript, existsResp, createFails, numFound, queue, t_rows, t_actions, t_bodies>>

pkg_Solr2EsAsync_migrate(r) ==
    /\ Scheduled(r)
    /\ run[r].impl = "pkg.Solr2EsAsync"
    /\ run[r].pc = "migrate"
    /\ run' = [run EXCEPT ![r] = pkg_Solr2EsAsync_enter(run[r])]
    /\ UNCHANGED <<index_name, mapping, solrScript, bulkScript, existsResp, createFails, numFound, queue, t_rows, t_actions, t_bodies>>

\* The loop of migrate up to the bulk call, lines 42-45 and 50-52.
pkg_Solr2EsAsync_search(r) ==
    /\ Scheduled(r)
    /\ run[r].impl = "pkg.Solr2EsAsync"
    /\ run[r].pc = "search"
    /\ run[r].nSearch < MaxRequests
    /\ \E json \in SolrTake(run[r].cursorMark, run[r].nSearch + 1) :
          /\ SolrScripted(run[r].nSearch + 1, json)
          /\ run' = [run EXCEPT ![r] =
                LET s == Searched(run[r])
                IN  IF json.raise THEN Raise(s, "SourceUnavailable")
                    ELSE pkg_Solr2EsAsync_compare(s, json)]
    /\ UNCHANGED <<index_name, mapping, bulkScript, existsResp, createFails, numFound, queue, t_rows, t_actions, t_bodies>>

\* The rest of the iteration, lines 46-49.
pkg_Solr2EsAsync_bulk(r) ==
    /\ Scheduled(r)
    /\ run[r].impl = "pkg.Solr2EsAsync"
    /\ run[r].pc = "bulk"
    /\ IF create_es_actionsRaises(run[r].results)
       THEN /\ run' = [run EXCEPT ![r] = Raise(run[r], "IndexError")]
            /\ UNCHANGED bulkScript
       ELSE \E response \in BulkTake(run[r].results, run[r].nBulk + 1) :
              /\ BulkScripted(run[r].nBulk + 1, response)
              /\ run' = [run EXCEPT ![r] =
                    LET s == Bulked(run[r], create_es_actions(index_name, run[r].results))
                    IN  IF response.raise THEN Raise(s, "BulkTransportFailure")
                        ELSE pkg_Solr2EsAsync_tally(s, response)]
    /\ UNCHANGED <<index_name, mapping, solrScript, existsResp, createFails, numFound, queue, t_rows, t_actions, t_bodies>>

Next ==
    \E r \in Runs :
        \/ Solr2Es_migrate(r)
        \/ Solr2Es_next(r)
        \/ Solr2Es_body(r)
        \/ Solr2EsAsync_migrate(r)
        \/ Solr2EsAsync_next(r)
        \/ Solr2EsAsync_body(r)
        \/ pkg_Solr2Es_migrate(r)
        \/ pkg_Solr2Es_search(r)
        \/ pkg_Solr2Es_bulk(r)
        \/ pkg_Solr2EsAsync_migrate(r)
        \/ pkg_Solr2EsAsync_search(r)
        \/ pkg_Solr2EsAsync_bulk(r)

Spec == Init /\ [][Next]_vars

NextPair ==
    \E r \in Runs :
        \/ Solr2Es_migrate(r)
        \/ Solr2Es_next(r)
        \/ Solr2Es_body(r)
        \/ Solr2EsAsync_migrate(r)
        \/ Solr2EsAsync_next(r)
        \/ Solr2EsAsync_body(r)

SpecPair == InitPair /\ [][NextPair]_vars

(* ------- solr2es.py: RedisConsumer, RedisConsumerAsync and resume ----- *)
QUEUE == "solr2es:queue"

\* The page dumped as one value.
Dumped_whole_page(results) == <<dumps(List(results))>>

\* map(dumps, results)
Dumped(results) == [i \in 1..Len(results) |-> dumps(results[i])]

RECURSIVE Reverse(_)
Reverse(xs) == IF xs = <<>> THEN <<>> ELSE Reverse(Tail(xs)) \o <<Head(xs)>>

\* LPUSH key v1 ... vn: each value in turn becomes the head of the list.
lpush(list, values) == Reverse(values) \o list

LpushCall(values) == Call("lpush", QUEUE, values, <<>>)

\* The two dumps and the two resumes of __main__.
DumpImpls == {"RedisConsumer", "RedisConsumerAsync"}
ResumeImpls == {"resume_from_redis", "aioresume_from_redis"}

\* A dump and then a resume, on the same redis.
InitDump ==
    /\ \E d \in DumpImpls, c \in ResumeImpls :
          run = [r \in Runs |-> IF r = 1 THEN [InitRun(d) EXCEPT !.pc = "consume"]
                                ELSE [InitRun(c) EXCEPT !.pc = "resume"]]
    /\ \E a \in MigrateArgs : index_name = a[1] /\ mapping = a[2]
    /\ solrScript = <<>>
    /\ bulkScript = <<>>
    /\ numFound \in Hits
    /\ existsResp = FALSE
    /\ createFails = FALSE
    /\ queue = <<>>
    /\ t_rows = <<>>
    /\ t_actions = NotCalled
    /\ t_bodies = NotCollapsed

\* The page yielded to consume's loop.
Consumed(s) == IF s.pc = "bulk" THEN [s EXCEPT !.pc = "lpush"] ELSE s

\* consume returns when the generator is exhausted.
RedisConsumer_return(s) == [s EXCEPT !.pc = "done"]

\* produce_results, line 101, then consume returns.
RedisConsumerAsync_return(s) ==
    [s EXCEPT !.log = Append(@, LogEntry("processed", <<s.pr_nb_results>>, <<>>)),
              !.pc = "done"]

\* consume, line 109: producer() makes the generator; nothing of it has run yet.
RedisConsumer_consume(r) ==
    /\ Scheduled(r)
    /\ run[r].impl = "RedisConsumer"
    /\ run[r].pc = "consume"
    /\ run' = [run EXCEPT ![r].pc = "search"]
    /\ UNCHANGED <<index_name, mapping, solrScript, bulkScript, existsResp, createFails, numFound, queue, t_rows, t_actions, t_bodies>>

\* One iteration of Solr2Es.produce_results, up to the yield or the end.
RedisConsumer_next(r) ==
    /\ Scheduled(r)
    /\ run[r].impl = "RedisConsumer"
    /\ run[r].pc = "search"
    /\ run[r].nSearch < MaxRequests
    /\ \E results \in SolrTake(run[r].cursorMark, run[r].nSearch + 1) :
          /\ SolrScripted(run[r].nSearch + 1, results)
          /\ run' = [run EXCEPT ![r] =
                LET s == Searched(run[r])
                IN  IF results.raise THEN Raise(s, "SourceUnavailable")
                    ELSE LET s1 == Solr2Es_produce_results(s, results)
                         IN  IF s1.cursor_ended THEN RedisConsumer_return(s1)
                             ELSE Consumed(s1)]
    /\ UNCHANGED <<index_name, mapping, bulkScript, existsResp, createFails, numFound, queue, t_rows, t_actions, t_bodies>>

\* consume, line 110: the page's documents dumped and pushed; the push may raise.
RedisConsumer_body(r) ==
    /\ Scheduled(r)
    /\ run[r].impl = "RedisConsumer"
    /\ run[r].pc = "lpush"
    /\ \E raises \in BOOLEAN :
          LET values == Dumped(run[r].results)
              s == [run[r] EXCEPT !.calls = Append(@, LpushCall(values))]
          IN  IF raises
              THEN /\ run' = [run EXCEPT ![r] = Raise(s, "RedisFailure")]
                   /\ UNCHANGED queue
              ELSE /\ run' = [run EXCEPT ![r] = [s EXCEPT !.pc = "search"]]
                   /\ queue' = lpush(queue, values)
    /\ UNCHANGED <<index_name, mapping, solrScript, bulkScript, existsResp, createFails, numFound, t_rows, t_actions, t_bodies>>

\* consume, line 118.
RedisConsumerAsync_consume(r) ==
    /\ Scheduled(r)
    /\ run[r].impl = "RedisConsumerAsync"
    /\ run[r].pc = "consume"
    /\ run' = [run EXCEPT ![r].pc = "search"]
    /\ UNCHANGED <<index_name, mapping, solrScript, bulkScript, existsResp, createFails, numFound, queue, t_rows, t_actions, t_bodies>>

\* One iteration of Solr2EsAsync.produce_results, up to the yield or the end.
RedisConsumerAsync_next(r) ==
    /\ Scheduled(r)
    /\ run[r].impl = "RedisConsumerAsync"
    /\ run[r].pc = "search"
    /\ run[r].nSearch < MaxRequests
    /\ \E json \in SolrTake(run[r].cursorMark, run[r].nSearch + 1) :
          /\ SolrScripted(run[r].nSearch + 1, json)
          /\ run' = [run EXCEPT ![r] =
                LET s == Searched(run[r])
                IN  IF json.raise THEN Raise(s, "SourceUnavailable")
                    ELSE LET s1 == Solr2EsAsync_produce_results(s, json)
                         IN  IF s1.cursor_ended THEN RedisConsumerAsync_return(s1)
                             ELSE Consumed(s1)]
    /\ UNCHANGED <<index_name, mapping, bulkScript, existsResp, createFails, numFound, queue, t_rows, t_actions, t_bodies>>

\* consume, line 119: the page's documents dumped and pushed; the push may raise.
RedisConsumerAsync_body(r) ==
    /\ Scheduled(r)
    /\ run[r].impl = "RedisConsumerAsync"
    /\ run[r].pc = "lpush"
    /\ \E raises \in BOOLEAN :
          LET values == Dumped(run[r].results)
              s == [run[r] EXCEPT !.calls = Append(@, LpushCall(values))]
          IN  IF raises
              THEN /\ run' = [run EXCEPT ![r] = Raise(s, "RedisFailure")]
                   /\ UNCHANGED queue
              ELSE /\ run' = [run EXCEPT ![r] = [s EXCEPT !.pc = "search"]]
                   /\ queue' = lpush(queue, values)
    /\ UNCHANGED <<index_name, mapping, solrScript, bulkScript, existsResp, createFails, numFound, t_rows, t_actions, t_bodies>>

\* resume_from_redis, lines 142-143: the call is logged, and that is all.
resume_from_redis(r) ==
    /\ Scheduled(r)
    /\ run[r].impl = "resume_from_redis"
    /\ run[r].pc = "resume"
    /\ run' = [run EXCEPT ![r] =
          [@ EXCEPT !.log = Append(@, LogEntry("resume", <<>>, <<index_name>>)),
                    !.pc = "done"]]
    /\ UNCHANGED <<index_name, mapping, solrScript, bulkScript, existsResp, createFails, numFound, queue, t_rows, t_actions, t_bodies>>

\* aioresume_from_redis, lines 158-159: likewise.
aioresume_from_redis(r) ==
    /\ Scheduled(r)
    /\ run[r].impl = "aioresume_from_redis"
    /\ run[r].pc = "resume"
    /\ run' = [run EXCEPT ![r] =
          [@ EXCEPT !.log = Append(@, LogEntry("asyncio resume", <<>>, <<index_name>>)),
                    !.pc = "done"]]
    /\ UNCHANGED <<index_name, mapping, solrScript, bulkScript, existsResp, createFails, numFound, queue, t_rows, t_actions, t_bodies>>

NextDump ==
    \E r \in Runs :
        \/ RedisConsumer_consume(r)
        \/ RedisConsumer_next(r)
        \/ RedisConsumer_body(r)
        \/ RedisConsumerAsync_consume(r)
        \/ RedisConsumerAsync_next(r)
        \/ RedisConsumerAsync_body(r)
        \/ resume_from_redis(r)
        \/ aioresume_from_redis(r)

SpecDump == InitDump /\ [][NextDump]_vars

(* ------------------- the transform called on its own ------------------ *)
\* The documents the transform is given: an id, and a tags field that is absent, a
\* scalar, or a list of none, one or two scalars.
TransformIds == <<"7", "8", "9">>
TagsValues == {Str("a"), List(<<>>), List(<<Str("a")>>), List(<<Str("a"), Str("b")>>)}
TransformDocs ==
    {Dict(<<Pair("id", Str(TransformIds[i]))>>) : i \in 1..Len(TransformIds)} \cup
    {Dict(<<Pair("id", Str(TransformIds[i])), Pair("tags", v)>>) :
        i \in 1..Len(TransformIds), v \in TagsValues}

IdIndex(row) == CHOOSE i \in 1..Len(TransformIds) : TransformIds[i] = DocId(row)

\* Pages of these documents, in id order as the query's sort gives them.
TransformPages ==
    UNION {{p \in [1..n -> TransformDocs] :
               \A i \in 1..(n - 1) : IdIndex(p[i]) < IdIndex(p[i + 1])} : n \in 0..MaxPageLen}

InitTransform ==
    /\ run = [r \in Runs |-> NoRun]
    /\ \E a \in MigrateArgs : index_name = a[1] /\ mapping = a[2]
    /\ solrScript = <<>>
    /\ bulkScript = <<>>
    /\ numFound = 0
    /\ existsResp = FALSE
    /\ createFails = FALSE
    /\ queue = <<>>
    /\ t_rows \in TransformPages
    /\ t_actions = NotCalled
    /\ t_bodies = NotCollapsed

\* create_es_actions(index_name, t_rows)
create_es_actions_call ==
    /\ ~t_actions.called
    /\ t_actions' = IF create_es_actionsRaises(t_rows)
                    THEN [called |-> TRUE, raised |-> TRUE, value |-> <<>>]
                    ELSE [called |-> TRUE, raised |-> FALSE,
                          value |-> create_es_actions(index_name, t_rows)]
    /\ UNCHANGED <<run, index_name, mapping, solrScript, bulkScript, existsResp, createFails,
                   numFound, queue, t_rows, t_bodies>>

\* remove_arrays(row) for every row of t_rows
remove_arrays_call ==
    /\ ~t_bodies.called
    /\ t_bodies' = IF \E i \in 1..Len(t_rows) : remove_arraysRaises(t_rows[i])
                   THEN [t_bodies EXCEPT !.called = TRUE, !.raised = TRUE]
                   ELSE [t_bodies EXCEPT !.called = TRUE,
                            !.value = [i \in 1..Len(t_rows) |-> remove_arrays(t_rows[i])]]
    /\ UNCHANGED <<run, index_name, mapping, solrScript, bulkScript, existsResp, createFails,
                   numFound, queue, t_rows, t_actions>>

\* remove_arrays(row) for every row the first call returned
remove_arrays_again ==
    /\ t_bodies.called /\ ~t_bodies.raised /\ ~t_bodies.twice
    /\ t_bodies' = IF \E i \in 1..Len(t_bodies.value) : remove_arraysRaises(t_bodies.value[i])
                   THEN [t_bodies EXCEPT !.twice = TRUE, !.raised = TRUE]
                   ELSE [t_bodies EXCEPT !.twice = TRUE,
                            !.again = [i \in 1..Len(t_bodies.value) |->
                                          remove_arrays(t_bodies.value[i])]]
    /\ UNCHANGED <<run, index_name, mapping, solrScript, bulkScript, existsResp, createFails,
                   numFound, queue, t_rows, t_actions>>

NextTransform == create_es_actions_call \/ remove_arrays_call \/ remove_arrays_again

SpecTransform == InitTransform /\ [][NextTransform]_vars

(* ======================== properties of the runs ====================== *)
SearchCalls(r) == SelectSeq(run[r].calls, LAMBDA c : c.op = "search")
BulkCalls(r) == SelectSeq(run[r].calls, LAMBDA c : c.op = "bulk")

\* The cursor the k-th request of run r carried.
CursorSent(r, k) == SearchCalls(r)[k].body[1]

\* The k-th request of run r was answered with another cursor than it carried.
Advanced(r, k) ==
    ~solrScript[k].raise /\ solrScript[k].nextCursorMark # CursorSent(r, k)

\* The k-th request of run r was answered with the cursor it carried.
FixedPoint(r, k) ==
    ~solrScript[k].raise /\ solrScript[k].nextCursorMark = CursorSent(r, k)

\* K: the requests of run r the source answered by advancing the cursor.
AdvancedCount(r) == Cardinality({k \in 1..run[r].nSearch : Advanced(r, k)})

RECURSIVE SumOver(_, _)
SumOver(f, n) == IF n = 0 THEN 0 ELSE f[n] + SumOver(f, n - 1)

FailedCount(response) ==
    Cardinality({i \in 1..Len(response.items) : response.items[i].failed})

PagerImpls == {"Solr2Es", "Solr2EsAsync"}

\* No collaborator call of run r raised, and the transform did not raise either.
NoCallFailed(r) ==
    run[r].error \notin {"SourceUnavailable", "BulkTransportFailure",
                         "TargetProvisioningFailure", "IndexError"}

\* C1: a run of produce_results that has stopped asking the source, none of whose
\* calls failed, has made exactly K+1 requests, K of them answered with an
\* advanced cursor and the last one with the cursor it carried.
C1_FixedPointTermination ==
    \A r \in Runs :
        (run[r].impl \in PagerImpls /\ Finished(run[r]) /\ NoCallFailed(r)) =>
            /\ run[r].nSearch = AdvancedCount(r) + 1
            /\ FixedPoint(r, run[r].nSearch)

\* C2: the success tally of Solr2Es.migrate is, after every page, the sum over the
\* pages written so far of n - f, n the item results and f the failed ones.
C2_TallyIsItemsMinusFailed ==
    \A r \in Runs :
        run[r].impl = "Solr2Es" =>
            run[r].nb_results =
                SumOver([j \in 1..run[r].nBulk |->
                           IF bulkScript[j].raise THEN 0
                           ELSE Len(bulkScript[j].items) - FailedCount(bulkScript[j])],
                        run[r].nBulk)

NoItemErrors(r) == \A j \in 1..run[r].nBulk : ~bulkScript[j].errors

\* The sizes of the pages run r was given before the fixed point.
PageSizes(r) == [k \in 1..(run[r].nSearch - 1) |-> Len(solrScript[k].docs)]

\* C3: when no bulk response reports item errors, migrate returns the sum of the
\* sizes of the pages the source returned before the fixed point.
C3_ReturnsSumOfPageSizes ==
    \A r \in Runs :
        (run[r].pc = "done" /\ NoItemErrors(r)) =>
            run[r].ret = <<SumOver(PageSizes(r), run[r].nSearch - 1)>>

\* Two pages, of one and of two documents, then the fixed point: 3 is returned.
C3_Witness ==
    \E r \in Runs :
        /\ run[r].pc = "done" /\ NoItemErrors(r)
        /\ run[r].nBulk = 2
        /\ PageSizes(r) = <<1, 2>>
        /\ run[r].ret = <<3>>

\* C4: a bulk response of Solr2Es.migrate that reports item errors leaves the run
\* going: right after it the run is back in its loop with no error, every failed
\* item is in the log, and a run that ends returns a count.
C4_ItemErrorsDoNotAbort ==
    \A r \in Runs :
        run[r].impl = "Solr2Es" =>
            /\ ( /\ run[r].calls # <<>>
                 /\ run[r].calls[Len(run[r].calls)].op = "bulk"
                 /\ ~bulkScript[run[r].nBulk].raise
                 /\ bulkScript[run[r].nBulk].errors )
               => /\ run[r].pc = "search"
                  /\ run[r].error = "none"
                  /\ \A i \in 1..Len(bulkScript[run[r].nBulk].items) :
                        bulkScript[run[r].nBulk].items[i].failed =>
                            \E l \in 1..Len(run[r].log) :
                                /\ run[r].log[l].msg = "warning"
                                /\ run[r].log[l].strs = <<bulkScript[run[r].nBulk].items[i].id>>
            /\ run[r].pc = "done" => Len(run[r].ret) = 1

\* Item errors on the first page, a second page written after it, and a count returned.
C4_Witness ==
    \E r \in Runs :
        /\ run[r].impl = "Solr2Es"
        /\ run[r].pc = "done"
        /\ run[r].nBulk = 2
        /\ ~bulkScript[1].raise /\ bulkScript[1].errors
        /\ Len(run[r].ret) = 1

\* C5: a search or bulk call that raises is the last call of the run, which ends
\* failed and returns nothing.
C5_FatalErrorsAbort ==
    \A r \in Runs :
        /\ \A k \in 1..run[r].nSearch :
              solrScript[k].raise =>
                  /\ k = run[r].nSearch
                  /\ run[r].calls[Len(run[r].calls)].op = "search"
                  /\ run[r].pc = "failed"
                  /\ run[r].ret = <<>>
        /\ \A j \in 1..run[r].nBulk :
              bulkScript[j].raise =>
                  /\ j = run[r].nBulk
                  /\ run[r].calls[Len(run[r].calls)].op = "bulk"
                  /\ run[r].pc = "failed"
                  /\ run[r].ret = <<>>

\* A bulk call raises after a page was written and counted: the tally is dropped.
C5_Witness ==
    \E r \in Runs :
        /\ run[r].nBulk = 2
        /\ bulkScript[2].raise
        /\ run[r].nb_results > 0
        /\ run[r].pc = "failed"
        /\ run[r].ret = <<>>

\* C6: Solr2Es.migrate asks for the index before any other call, creates it with
\* the mapping exactly when it is absent, and then only pages and writes.
C6_IndexEnsuredFirst ==
    \A r \in Runs :
        (run[r].impl \in {"Solr2Es", "pkg.Solr2Es"} /\ run[r].calls # <<>>) =>
            /\ run[r].calls[1] = ExistsCall
            /\ \A i \in 2..Len(run[r].calls) :
                  /\ run[r].calls[i].op # "exists"
                  /\ run[r].calls[i].op = "create" <=> (i = 2 /\ ~existsResp)
                  /\ run[r].calls[i].op = "create" => run[r].calls[i] = CreateCall
            /\ (~existsResp /\ createFails) => Len(run[r].calls) <= 2

\* C7: on the same responses Solr2Es.migrate and Solr2EsAsync.migrate of solr2es.py
\* make the same calls and end the same way with the same count.
C7_SameExternalSemantics ==
    (run[1].impl = "Solr2Es" /\ run[2].impl = "Solr2EsAsync"
        /\ Finished(run[1]) /\ Finished(run[2])) =>
            /\ run[1].calls = run[2].calls
            /\ run[1].pc = run[2].pc
            /\ run[1].ret = run[2].ret

\* The search and bulk calls of run r, in the order they were made.
PipelineCalls(r) == SelectSeq(run[r].calls, LAMBDA c : c.op \in {"search", "bulk"})

\* C8: in every run search and bulk calls alternate, the j-th bulk call carries the
\* transformed j-th page the source returned, and a run that ends has written
\* every page before the fixed point.
C8_PagesInLockstep ==
    \A r \in Runs :
        /\ \A i \in 1..Len(PipelineCalls(r)) :
              PipelineCalls(r)[i].op = IF i % 2 = 1 THEN "search" ELSE "bulk"
        /\ \A j \in 1..Len(BulkCalls(r)) :
              /\ Advanced(r, j)
              /\ BulkCalls(r)[j].body = create_es_actions(index_name, solrScript[j].docs)
        /\ run[r].pc = "done" => Len(BulkCalls(r)) = run[r].nSearch - 1

\* Two different pages written in order, then the fixed point.
C8_Witness ==
    \E r \in Runs :
        /\ run[r].pc = "done"
        /\ Len(BulkCalls(r)) = 2
        /\ solrScript[1].docs # <<>> /\ solrScript[2].docs # <<>>
        /\ solrScript[1].docs # solrScript[2].docs

Reads(r) == SelectSeq(run[r].log, LAMBDA e : e.msg = "read")

\* C9: with N documents counted as written, floor(N / threshold) progress
\* notifications have been emitted, the i-th at i times the threshold.
C9_ProgressAtThresholdCrossings ==
    \A r \in Runs :
        (run[r].impl \in PagerImpls /\ run[r].pc \in {"search", "done"}) =>
            /\ Len(Reads(r)) = run[r].nb_results \div ProgressThreshold
            /\ \A i \in 1..Len(Reads(r)) : Reads(r)[i].nums[1] = i * ProgressThreshold

RECURSIVE SplitLines(_)
\* text.split("\n")
SplitLines(tokens) ==
    IF \A i \in 1..Len(tokens) : tokens[i] # "\n" THEN <<tokens>>
    ELSE LET i == CHOOSE j \in 1..Len(tokens) :
                      tokens[j] = "\n" /\ \A h \in 1..(j - 1) : tokens[h] # "\n"
         IN  <<SubSeq(tokens, 1, i - 1)>> \o SplitLines(SubSeq(tokens, i + 1, Len(tokens)))

\* The token that follows "key": in a line.
ValueOf(line, key) ==
    LET i == CHOOSE j \in 1..Len(line) : line[j] = Quote(key)
    IN  line[i + 2]

\* C10: in every bulk batch of every run the i-th directive names the index
\* migrate was given and the id of the i-th document of the page.
C10_DirectiveCarriesSourceId ==
    \A r \in Runs :
        \A j \in 1..Len(BulkCalls(r)) :
            LET page == solrScript[j].docs
                lines == SplitLines(BulkCalls(r)[j].body)
            IN  /\ Len(page) > 0 => Len(lines) = 2 * Len(page)
                /\ Len(page) = 0 => BulkCalls(r)[j].body = <<>>
                /\ \A i \in 1..Len(page) :
                      /\ lines[2 * i - 1][2] = Quote("index")
                      /\ ValueOf(lines[2 * i - 1], "_index") = Quote(index_name)
                      /\ ValueOf(lines[2 * i - 1], "_id") = Quote(DocId(page[i]))

\* A batch of two documents has been written.
C10_Witness ==
    \E r \in Runs :
        \E j \in 1..Len(BulkCalls(r)) :
            /\ Len(solrScript[j].docs) = 2
            /\ Len(SplitLines(BulkCalls(r)[j].body)) = 4

(* ==================== properties of the transform ==================== *)
\* The document with every list replaced by its first element.
Collapsed(row) ==
    Dict([i \in 1..Len(row.items) |->
            Pair(row.items[i].k,
                 IF row.items[i].v.kind = "list" THEN row.items[i].v.items[1]
                 ELSE row.items[i].v)])

\* The directive line of a document: action "index", the target index, the type
\* and the document's id.
DirectiveLine(row) ==
    <<"{", Quote("index"), ":",
      "{", Quote("_index"), ":", Quote(index_name), ",",
           Quote("_type"), ":", Quote("doc"), ",",
           Quote("_id"), ":", Quote(DocId(row)), "}", "}">>

\* C11: the text create_es_actions returns for a page of n documents is 2n lines
\* joined by newlines (no text for n = 0): for the i-th document, in page order,
\* its directive line and then the dump of the document with every list replaced
\* by its first element and every scalar as it was.
C11_TwoLinesPerDocument ==
    (t_actions.called /\ ~t_actions.raised) =>
        LET n == Len(t_rows)
            lines == SplitLines(t_actions.value)
        IN  /\ n = 0 => t_actions.value = <<>>
            /\ n > 0 => Len(lines) = 2 * n
            /\ \A i \in 1..n :
                  /\ lines[2 * i - 1] = DirectiveLine(t_rows[i])
                  /\ lines[2 * i] = dumps(Collapsed(t_rows[i]))

\* A page of two documents, one with a list of two and one with a scalar, transformed.
C11_Witness ==
    /\ t_actions.called /\ ~t_actions.raised
    /\ Len(t_rows) = 2
    /\ t_rows[1] = Doc7
    /\ t_rows[2] = Doc8

\* The example: the document with id "7" and tags ["a","b"], alone in its page,
\* transformed for the index "idx".
C12_Example ==
    /\ t_actions.called
    /\ index_name = "idx"
    /\ t_rows = <<Doc7>>

\* C12 as stated: the example gives two lines, the directive for id "7" and index
\* "idx", then a body that is exactly {"tags":"a"}.
C12_BodyIsTagsOnly ==
    C12_Example =>
        LET lines == SplitLines(t_actions.value)
        IN  /\ ~t_actions.raised
            /\ Len(lines) = 2
            /\ ValueOf(lines[1], "_id") = Quote("7")
            /\ ValueOf(lines[1], "_index") = Quote("idx")
            /\ lines[2] = <<"{", Quote("tags"), ":", Quote("a"), "}">>

\* C12 amended: the example gives two lines, the directive for id "7" and index
\* "idx", then a body that is exactly {"id":"7","tags":"a"}: the id stays in the
\* body beside the collapsed tags.
C12_BodyKeepsId ==
    C12_Example =>
        LET lines == SplitLines(t_actions.value)
        IN  /\ ~t_actions.raised
            /\ Len(lines) = 2
            /\ ValueOf(lines[1], "_id") = Quote("7")
            /\ ValueOf(lines[1], "_index") = Quote("idx")
            /\ lines[2] = <<"{", Quote("id"), ":", Quote("7"), ",",
                                 Quote("tags"), ":", Quote("a"), "}">>

\* The example has been transformed.
C12_Witness == C12_Example /\ ~t_actions.raised

\* Every list of the page's documents has exactly one element.
SingletonLists(rows) ==
    \A i \in 1..Len(rows) : \A j \in 1..Len(rows[i].items) :
        rows[i].items[j].v.kind = "list" => Len(rows[i].items[j].v.items) = 1

\* No field of the page's documents is a list.
NoLists(rows) ==
    \A i \in 1..Len(rows) : \A j \in 1..Len(rows[i].items) :
        rows[i].items[j].v.kind # "list"

\* The same documents with the one element of each list in the list's place.
Scalarised(rows) ==
    [i \in 1..Len(rows) |->
        Dict([j \in 1..Len(rows[i].items) |->
                Pair(rows[i].items[j].k,
                     IF rows[i].items[j].v.kind = "list"
                     THEN Head(rows[i].items[j].v.items)
                     ELSE rows[i].items[j].v)])]

\* C13: a page whose lists all have one element is transformed to the text its
\* scalar equivalent is transformed to; remove_arrays returns a document without
\* lists as it was given, and returns what it returned when called on that.
C13_CollapsingIdempotent ==
    /\ (t_actions.called /\ SingletonLists(t_rows)) =>
          /\ ~t_actions.raised
          /\ t_actions.value = create_es_actions(index_name, Scalarised(t_rows))
    /\ (t_bodies.called /\ NoLists(t_rows)) =>
          /\ ~t_bodies.raised
          /\ t_bodies.value = t_rows
    /\ t_bodies.twice =>
          /\ ~t_bodies.raised
          /\ t_bodies.again = t_bodies.value

\* A page with a one-element list has been transformed, and remove_arrays has been
\* called on its documents and again on what it returned.
C13_Witness ==
    /\ t_actions.called /\ ~t_actions.raised
    /\ SingletonLists(t_rows)
    /\ \E i \in 1..Len(t_rows) :
          t_rows[i] = Dict(<<Pair("id", Str("7")), Pair("tags", List(<<Str("a")>>))>>)
    /\ t_bodies.twice /\ ~t_bodies.raised

(* ================== properties of the dump and resume ================= *)
LpushCalls(r) == SelectSeq(run[r].calls, LAMBDA c : c.op = "lpush")

\* The pushes that did not raise: all of them, but the last of a run it ended.
SucceededPushes(r) ==
    IF run[r].error = "RedisFailure"
    THEN SubSeq(LpushCalls(r), 1, Len(LpushCalls(r)) - 1)
    ELSE LpushCalls(r)

\* The serialized documents of these pages, page after page.
RECURSIVE SerializedDocs(_)
SerializedDocs(pages) ==
    IF pages = <<>> THEN <<>>
    ELSE [i \in 1..Len(Head(pages)) |-> dumps(Head(pages)[i])] \o SerializedDocs(Tail(pages))

\* C14: in a dump the calls are a request, then the push of the page it returned,
\* then the next request, and so on, with no call to the destination; the j-th
\* push carries, under the key 'solr2es:queue', the dump of each document of the
\* j-th page, once and in page order; and the list holds, newest first, exactly
\* the documents of the pages whose push succeeded.
C14_DumpPushesEveryPageOnce ==
    \A r \in Runs :
        run[r].impl \in DumpImpls =>
            /\ \A i \in 1..Len(run[r].calls) :
                  run[r].calls[i].op = IF i % 2 = 1 THEN "search" ELSE "lpush"
            /\ \A j \in 1..Len(LpushCalls(r)) :
                  /\ LpushCalls(r)[j].name = "solr2es:queue"
                  /\ Len(LpushCalls(r)[j].body) = Len(solrScript[j].docs)
                  /\ \A i \in 1..Len(solrScript[j].docs) :
                        LpushCalls(r)[j].body[i] = dumps(solrScript[j].docs[i])
            /\ Reverse(queue) =
                  SerializedDocs([j \in 1..Len(SucceededPushes(r)) |-> solrScript[j].docs])
            /\ (run[r].pc = "done" /\ run[r].error = "none") =>
                  /\ Len(LpushCalls(r)) = Len(solrScript) - 1
                  /\ \A j \in 1..Len(LpushCalls(r)) : Advanced(r, j)

\* A dump has returned after pushing two pages, three documents in all, and the
\* second request was made with the first page's documents in the list.
C14_Witness ==
    \E r \in Runs :
        /\ run[r].impl \in DumpImpls
        /\ run[r].pc = "done"
        /\ Len(LpushCalls(r)) = 2
        /\ Len(queue) = 3
        /\ queue[3] = dumps(solrScript[1].docs[1])

\* The directive and body lines the direct path writes for these pages.
RECURSIVE DirectLines(_)
DirectLines(pages) ==
    IF pages = <<>> THEN <<>>
    ELSE (IF Head(pages) = <<>> \/ create_es_actionsRaises(Head(pages)) THEN <<>>
          ELSE SplitLines(create_es_actions(index_name, Head(pages))))
         \o DirectLines(Tail(pages))

\* The directive and body lines of the bulk writes of run r.
RECURSIVE LinesOf(_)
LinesOf(calls) ==
    IF calls = <<>> THEN <<>>
    ELSE (IF Head(calls).body = <<>> THEN <<>> ELSE SplitLines(Head(calls).body))
         \o LinesOf(Tail(calls))

\* C15: when a resume has returned, the list is empty and the resume has written
\* to the destination the directive and body lines the direct path writes for the
\* pages that were pushed, oldest first.
C15_ResumeDrainsQueue ==
    \A r \in Runs :
        (run[r].impl \in ResumeImpls /\ run[r].pc = "done") =>
            /\ queue = <<>>
            /\ LinesOf(BulkCalls(r)) =
                  DirectLines([j \in 1..Len(SucceededPushes(1)) |-> solrScript[j].docs])

(* ===================== properties of the index ======================= *)
\* The destination has no index of the name and run r has not asked for one.
IndexAbsent(r) ==
    /\ ~existsResp
    /\ \A i \in 1..Len(run[r].calls) : run[r].calls[i].op # "create"

\* C16: a migrate that does not create the index it finds absent issues no bulk
\* write, and once it has a page to write (and has not failed before the write)
\* it ends with the error IndexNotFound.
C16_AbsentIndexIsSignalled ==
    \A r \in Runs :
        (run[r].impl \in Impls /\ IndexAbsent(r)) =>
            /\ BulkCalls(r) = <<>>
            /\ (/\ Finished(run[r])
                /\ \E k \in 1..run[r].nSearch : Advanced(r, k)
                /\ run[r].error \notin {"SourceUnavailable", "ZeroDivisionError", "IndexError"}) =>
                  run[r].error = "IndexNotFound"

(* ====================== properties of the cursor ====================== *)
\* The responses run r has read: those to its requests that did not raise.
Answered(r) == {k \in 1..run[r].nSearch : ~solrScript[k].raise}

FoundEntries(r) == SelectSeq(run[r].log, LAMBDA e : e.msg = "found")

\* C17: the first request of the pager carries the cursor '*' and the sort
\* 'id asc', and every later one the same query and sort and the nextCursorMark of
\* the response before it; the cursor the pager holds is '*' until a response
\* advanced it and then the nextCursorMark of the last response that did; and the
\* total is the hits of the response to the '*' request, reported once.
C17_CursorChained ==
    \A r \in Runs :
        run[r].impl \in PagerImpls =>
            /\ \A k \in 1..Len(SearchCalls(r)) :
                  /\ SearchCalls(r)[k].name = "*:*"
                  /\ SearchCalls(r)[k].opts = <<"id asc">>
                  /\ SearchCalls(r)[k].body =
                        <<IF k = 1 THEN "*" ELSE solrScript[k - 1].nextCursorMark>>
            /\ LET adv == {k \in Answered(r) : Advanced(r, k)}
               IN  run[r].cursorMark =
                     IF adv = {} THEN "*"
                     ELSE solrScript[CHOOSE k \in adv : \A h \in adv : h <= k].nextCursorMark
            /\ IF 1 \in Answered(r)
               THEN /\ run[r].nb_total = solrScript[1].hits
                    /\ FoundEntries(r) = <<LogEntry("found", <<solrScript[1].hits>>, <<>>)>>
               ELSE /\ run[r].nb_total = 0
                    /\ FoundEntries(r) = <<>>

\* A pager has made three requests, the second and third with the cursors it was
\* returned, and holds the total of the first response, not that of the third.
C17_Witness ==
    \E r \in Runs :
        /\ run[r].impl \in PagerImpls
        /\ run[r].nSearch = 3
        /\ Advanced(r, 1) /\ Advanced(r, 2) /\ 3 \in Answered(r)
        /\ CursorSent(r, 2) = "c1" /\ CursorSent(r, 3) = "c2"
        /\ run[r].nb_total = solrScript[1].hits
        /\ run[r].nb_total # solrScript[3].hits

(* ==================== properties of termination ====================== *)
\* Run r has returned exactly when its last request was answered with the cursor
\* it carried.
ReturnsAtFixedPoint(r) ==
    run[r].pc = "done" <=> (run[r].nSearch >= 1 /\ FixedPoint(r, run[r].nSearch))

\* Run r has stopped, or has made all the requests the model allows and is about
\* to make another.
Settled(r) ==
    \/ run[r].pc \in {"idle", "done", "failed"}
    \/ run[r].pc = "search" /\ run[r].nSearch = MaxRequests

\* Run r has a step to take: migrate's entry, a request the source has an answer
\* to, or the transform and write of the page it holds.
CanStep(r) ==
    \/ run[r].pc = "migrate"
    \/ /\ run[r].pc = "search"
       /\ run[r].nSearch < MaxRequests
       /\ SolrTake(run[r].cursorMark, run[r].nSearch + 1) # {}
    \/ /\ run[r].pc = "bulk"
       /\ \/ create_es_actionsRaises(run[r].results)
          \/ BulkTake(run[r].results, run[r].nBulk + 1) # {}

\* C18: a migrate returns exactly when the source answers a request with the
\* cursor it carried; until then, and unless a call or a step raises, it has a
\* next write or request to make, whatever the number of requests made.
C18_ReturnsIffFixedPoint ==
    \A r \in Runs :
        run[r].impl \in Impls =>
            /\ ReturnsAtFixedPoint(r)
            /\ ~Settled(r) => CanStep(r)

\* A migrate has been answered with a new cursor every time, has written every
\* page and is about to make one more request.
C18_Witness ==
    \E r \in Runs :
        /\ run[r].impl \in Impls
        /\ run[r].nSearch = MaxRequests
        /\ \A k \in 1..MaxRequests : Advanced(r, k)
        /\ run[r].nBulk = MaxRequests
        /\ run[r].pc = "search"

(* ================= properties of the failures inside ================== *)
\* C19: the progress report never makes the pager fail: no run of a pager ends
\* with the division by the total raising.
C19_ProgressNeverFails ==
    \A r \in Runs :
        run[r].impl \in PagerImpls => run[r].error # "ZeroDivisionError"

\* C20: the transform is total: called on a page of documents that have an id and
\* whose other fields are scalars or lists of scalars, the empty list included,
\* neither create_es_actions nor remove_arrays raises.
C20_TransformTotal ==
    /\ t_actions.called => ~t_actions.raised
    /\ t_bodies.called => ~t_bodies.raised

====
